---- MODULE Spec2Model ----
(***************************************************************************)
(* Model of pharetra's Table<T> (src/src/table.rs): a flat buffer `data`   *)
(* addressed row-major or column-major, with parallel column metadata.     *)
(* Every method of the table is an operator over the table value `self`,   *)
(* returning the table after the call and the value the call returns; a    *)
(* Rust panic is the return kind "panic".  One action per method applies   *)
(* the operator to the current table with arguments from bounded sets.     *)
(***************************************************************************)
EXTENDS Integers, Sequences, FiniteSets, TLC

\* ---------------------------------------------------------------- bounds
MaxDim == 2      \* largest num_cols / num_rows / vector argument length
MaxCells == 4    \* largest data.len()
MaxElem == 1     \* elements of T are 0..MaxElem; T::default() is 0
MaxCoord == 2    \* Point components are the integers -MaxCoord..MaxCoord

Elems == 0..MaxElem
Names == {"a", "b"}
Descs == {""}    \* description arguments of set_col_description
Idx == 0..MaxDim
Orders == {"RowMajor", "ColumnMajor"}

SeqsUpTo(S, n) == UNION {[1..k -> S] : k \in 0..n}
Vecs == SeqsUpTo(Elems, MaxDim)
DataVecs == SeqsUpTo(Elems, MaxCells)
NameVecs == SeqsUpTo(Names, MaxDim)
\* vector arguments for a row or column of n cells: every vector of the right
\* length, and one vector of each wrong length (only its length is looked at)
ArgVecs(n) == {v \in Vecs : Len(v) = n \/ v = [i \in 1..Len(v) |-> 0]}

\* ------------------------------------------------------------ state
VARIABLES col_names, descriptions, data, num_cols, num_rows, order,
          alive,   \* TRUE once a constructor has returned a table
          call,    \* the last call: method name and arguments
          ret,     \* what the last call returned (or that it panicked)
          point,   \* the Point a Point method is called on (src/src/point.rs)
          other    \* the Point passed to it

vars == <<col_names, descriptions, data, num_cols, num_rows, order, alive, call, ret,
          point, other>>

\* The table value, as the methods see it through &self / &mut self.
self == [col_names |-> col_names, descriptions |-> descriptions, data |-> data,
         num_cols |-> num_cols, num_rows |-> num_rows, order |-> order]

\* --------------------------------------------------- return values
Ret(k, v, s) == [kind |-> k, vals |-> v, str |-> s]
Unit == Ret("unit", <<>>, "")
Ok == Ret("ok", <<>>, "")
Err(e) == Ret("err", <<>>, e)
None == Ret("none", <<>>, "")
Some(v) == Ret("some", v, "")
SomeStr(s) == Ret("some", <<>>, s)
Panic(msg) == Ret("panic", <<>>, msg)

Out(t, r) == [self |-> t, ret |-> r]

\* ------------------------------------------------------------ Point
Coords == (0 - MaxCoord)..MaxCoord
Points == [x : Coords, y : Coords, z : Coords]
\* Point::default()
DefaultPoint == [x |-> 0, y |-> 0, z |-> 0]
\* a Point as a returned value
SomePoint(p) == Ret("point", <<p.x, p.y, p.z>>, "")

\* Components are integer-valued and small, so the f32 products and
\* differences are exact.
cross(p, o) ==
    [x |-> p.y * o.z - p.z * o.y,
     y |-> p.z * o.x - p.x * o.z,
     z |-> p.x * o.y - p.y * o.z]

\* --------------------------------------------- Rust library semantics
\* &v[a..b] with a <= b: panics unless b <= v.len()
InRange(v, a, b) == b <= Len(v)
Slice(v, a, b) == SubSeq(v, a + 1, b)
\* v.drain(a..b), once the Drain is consumed or dropped
Drained(v, a, b) == SubSeq(v, 1, a) \o SubSeq(v, b + 1, Len(v))
\* v.remove(i): panics unless i < v.len()
Removed(v, i) == SubSeq(v, 1, i) \o SubSeq(v, i + 2, Len(v))
\* std::mem::replace(&mut v[i], x)
Replaced(v, i, x) == [v EXCEPT ![i + 1] = x]
\* v.iter().position(|s| s == name): 0-based index of the first match, -1 for None
\* Iterator::position as it would be if it returned the last match
position_last(v, name) ==
    IF \E i \in 1..Len(v) : v[i] = name
    THEN (CHOOSE i \in 1..Len(v) : v[i] = name /\ \A j \in (i + 1)..Len(v) : v[j] # name) - 1
    ELSE -1

position(v, name) ==
    IF \E i \in 1..Len(v) : v[i] = name
    THEN (CHOOSE i \in 1..Len(v) : v[i] = name /\ \A j \in 1..(i - 1) : v[j] # name) - 1
    ELSE -1

\* str::repeat
RECURSIVE repeat(_, _)
repeat(s, n) == IF n = 0 THEN "" ELSE s \o repeat(s, n - 1)

\* str::split(sep) for a one-character separator, collected into a vector
RECURSIVE split(_, _)
split(s, sep) ==
    IF \E i \in 1..Len(s) : SubSeq(s, i, i) = sep
    THEN LET i == CHOOSE k \in 1..Len(s) :
                      SubSeq(s, k, k) = sep /\ \A j \in 1..(k - 1) : SubSeq(s, j, j) # sep
         IN  <<SubSeq(s, 1, i - 1)>> \o split(SubSeq(s, i + 1, Len(s)), sep)
    ELSE <<s>>

\* vec![T::default(); n]
Zeros(n) == [i \in 1..n |-> 0]

\* Vec::from_iter("".repeat(num_cols).split(';').map(|s| s.to_string()))
init_descriptions(n) == split(repeat("", n), ";")

\* ------------------------------------------------------ constructors
EmptyTable == [col_names |-> <<>>, descriptions |-> <<>>, data |-> <<>>,
               num_cols |-> 0, num_rows |-> 0, order |-> "RowMajor"]

new == Out(EmptyTable, Ok)

new_sized(nc, nr, names) ==
    IF Len(names) # nc
    THEN Out(EmptyTable, Err("InvalidNumberOfColumnNames"))
    ELSE Out([col_names |-> names, descriptions |-> init_descriptions(nc),
              data |-> Zeros(nc * nr), num_cols |-> nc, num_rows |-> nr,
              order |-> "RowMajor"], Ok)

from_vec(d, nc, names) ==
    IF nc = 0
    THEN Out(EmptyTable, Panic("remainder with a divisor of zero"))
    ELSE IF Len(d) % nc # 0
    THEN Out(EmptyTable, Err("InvalidNumberOfColumns"))
    ELSE IF Len(names) # nc
    THEN Out(EmptyTable, Err("InvalidNumberOfColumnNames"))
    ELSE Out([col_names |-> names, descriptions |-> init_descriptions(nc),
              data |-> d, num_cols |-> nc, num_rows |-> Len(d) \div nc,
              order |-> "RowMajor"], Ok)

from_vec_with_order(d, nc, names, ord) ==
    IF nc = 0
    THEN Out(EmptyTable, Panic("remainder with a divisor of zero"))
    ELSE IF Len(d) % nc # 0
    THEN Out(EmptyTable, Err("InvalidNumberOfColumns"))
    ELSE Out([col_names |-> names, descriptions |-> init_descriptions(nc),
              data |-> d, num_cols |-> nc, num_rows |-> Len(d) \div nc,
              order |-> ord], Ok)

\* ------------------------------------------------- layout-aware access
col(t, c) ==
    IF c >= t.num_cols THEN Out(t, None)
    ELSE LET start == IF t.order = "ColumnMajor" THEN c * t.num_rows ELSE c
         IN  IF InRange(t.data, start, start + t.num_rows)
             THEN Out(t, Some(Slice(t.data, start, start + t.num_rows)))
             ELSE Out(t, Panic("range end index out of range for slice"))

col_name(t, c) ==
    IF c >= t.num_cols THEN Out(t, None)
    ELSE IF c < Len(t.col_names) THEN Out(t, SomeStr(t.col_names[c + 1]))
    ELSE Out(t, None)

col_description(t, c) ==
    IF c >= t.num_cols THEN Out(t, None)
    ELSE IF c < Len(t.descriptions) THEN Out(t, SomeStr(t.descriptions[c + 1]))
    ELSE Out(t, None)

row(t, r) ==
    IF r >= t.num_rows THEN Out(t, None)
    ELSE LET start == IF t.order = "RowMajor" THEN r * t.num_cols ELSE r
         IN  IF InRange(t.data, start, start + t.num_cols)
             THEN Out(t, Some(Slice(t.data, start, start + t.num_cols)))
             ELSE Out(t, Panic("range end index out of range for slice"))

\* transpose as it would be without self.order.swap()
transpose_without_order_swap(t) ==
    Out([t EXCEPT !.num_cols = t.num_rows,
                  !.num_rows = t.num_cols], Unit)

\* transpose as it would be without the swap of num_cols and num_rows
transpose_without_count_swap(t) ==
    Out([t EXCEPT !.order = IF t.order = "RowMajor" THEN "ColumnMajor" ELSE "RowMajor"],
        Unit)

transpose(t) ==
    Out([t EXCEPT !.order = IF t.order = "RowMajor" THEN "ColumnMajor" ELSE "RowMajor",
                  !.num_cols = t.num_rows,
                  !.num_rows = t.num_cols], Unit)

col_by_name(t, name) ==
    LET i == position(t.col_names, name)
    IN  IF i < 0 THEN Out(t, None) ELSE col(t, i)

\* get as it would be if the layout flag were ignored
get_ignoring_order(t, r, c) ==
    IF r >= t.num_rows \/ c >= t.num_cols THEN Out(t, None)
    ELSE IF r * t.num_cols + c < Len(t.data)
         THEN Out(t, Some(<<t.data[r * t.num_cols + c + 1]>>))
         ELSE Out(t, Panic("index out of bounds"))

get(t, r, c) ==
    IF r >= t.num_rows \/ c >= t.num_cols THEN Out(t, None)
    ELSE LET r2 == IF t.order = "RowMajor" THEN r * t.num_cols ELSE r
             c2 == IF t.order = "RowMajor" THEN c ELSE c * t.num_rows
         IN  IF r2 + c2 < Len(t.data)
             THEN Out(t, Some(<<t.data[r2 + c2 + 1]>>))
             ELSE Out(t, Panic("index out of bounds"))

\* set as it would be if the new value were written to a copy of the cell
set_on_copy(t, r, c, value) ==
    IF r >= t.num_rows \/ c >= t.num_cols THEN Out(t, None)
    ELSE LET r2 == IF t.order = "RowMajor" THEN r * t.num_cols ELSE r
             c2 == IF t.order = "RowMajor" THEN c ELSE c * t.num_rows
         IN  IF r2 + c2 < Len(t.data)
             THEN Out(t, Some(<<t.data[r2 + c2 + 1]>>))
             ELSE Out(t, Panic("index out of bounds"))

set(t, r, c, value) ==
    IF r >= t.num_rows \/ c >= t.num_cols THEN Out(t, None)
    ELSE LET r2 == IF t.order = "RowMajor" THEN r * t.num_cols ELSE r
             c2 == IF t.order = "RowMajor" THEN c ELSE c * t.num_rows
         IN  IF r2 + c2 < Len(t.data)
             THEN Out([t EXCEPT !.data = Replaced(t.data, r2 + c2, value)],
                      Some(<<t.data[r2 + c2 + 1]>>))
             ELSE Out(t, Panic("index out of bounds"))

\* mem::replace acts on the temporary made by to_vec(): self.data is not written
set_col(t, c, col_data) ==
    IF c >= t.num_cols \/ Len(col_data) # t.num_rows THEN Out(t, None)
    ELSE LET start == IF t.order = "ColumnMajor" THEN c * t.num_rows ELSE c
         IN  IF InRange(t.data, start, start + t.num_rows)
             THEN Out(t, Some(Slice(t.data, start, start + t.num_rows)))
             ELSE Out(t, Panic("range end index out of range for slice"))

set_row(t, r, row_data) ==
    IF r >= t.num_rows \/ Len(row_data) # t.num_cols THEN Out(t, None)
    ELSE LET start == IF t.order = "RowMajor" THEN r * t.num_cols ELSE r
         IN  IF InRange(t.data, start, start + t.num_cols)
             THEN Out(t, Some(Slice(t.data, start, start + t.num_cols)))
             ELSE Out(t, Panic("range end index out of range for slice"))

set_col_by_name(t, name, col_data) ==
    LET i == position(t.col_names, name)
    IN  IF i < 0 THEN Out(t, None) ELSE set_col(t, i, col_data)

set_col_name(t, c, name) ==
    IF c >= t.num_cols THEN Out(t, None)
    ELSE IF c < Len(t.col_names)
    THEN Out([t EXCEPT !.col_names = Replaced(t.col_names, c, name)],
             SomeStr(t.col_names[c + 1]))
    ELSE Out(t, Panic("index out of bounds"))

set_col_description(t, c, description) ==
    IF c >= t.num_cols THEN Out(t, None)
    ELSE IF c < Len(t.descriptions)
    THEN Out([t EXCEPT !.descriptions = Replaced(t.descriptions, c, description)],
             SomeStr(t.descriptions[c + 1]))
    ELSE Out(t, Panic("index out of bounds"))

iter_row(t, r) ==
    IF r >= t.num_rows THEN Out(t, None)
    ELSE LET start == IF t.order = "RowMajor" THEN r * t.num_cols ELSE r
         IN  IF InRange(t.data, start, start + t.num_cols)
             THEN Out(t, Some(Slice(t.data, start, start + t.num_cols)))
             ELSE Out(t, Panic("range end index out of range for slice"))

iter_col(t, c) ==
    IF c >= t.num_cols THEN Out(t, None)
    ELSE LET start == IF t.order = "ColumnMajor" THEN c * t.num_rows ELSE c
         IN  IF InRange(t.data, start, start + t.num_rows)
             THEN Out(t, Some(Slice(t.data, start, start + t.num_rows)))
             ELSE Out(t, Panic("range end index out of range for slice"))

\* ------------------------------------------------ structural mutation
\* push_col as it would be if the name were pushed before the length check
push_col_name_first(t, name, col_data) ==
    IF Len(col_data) # t.num_rows
    THEN Out([t EXCEPT !.col_names = Append(t.col_names, name)],
             Err("InvalidNumberOfElements"))
    ELSE Out([t EXCEPT !.col_names = Append(t.col_names, name),
                       !.data = t.data \o col_data,
                       !.num_cols = t.num_cols + 1,
                       !.descriptions = Append(t.descriptions, "")], Ok)

\* push_col as it would be without col_names.push(name)
push_col_without_name(t, name, col_data) ==
    IF Len(col_data) # t.num_rows THEN Out(t, Err("InvalidNumberOfElements"))
    ELSE Out([t EXCEPT !.data = t.data \o col_data,
                       !.num_cols = t.num_cols + 1,
                       !.descriptions = Append(t.descriptions, "")], Ok)

push_col(t, name, col_data) ==
    IF Len(col_data) # t.num_rows THEN Out(t, Err("InvalidNumberOfElements"))
    ELSE Out([t EXCEPT !.col_names = Append(t.col_names, name),
                       !.data = t.data \o col_data,
                       !.num_cols = t.num_cols + 1,
                       !.descriptions = Append(t.descriptions, "")], Ok)

\* push_row as it would be if the row were inserted at the head of the buffer
push_row_at_front(t, row_data) ==
    IF Len(row_data) # t.num_cols THEN Out(t, Err("InvalidNumberOfElements"))
    ELSE Out([t EXCEPT !.data = row_data \o t.data,
                       !.num_rows = t.num_rows + 1], Ok)

\* push_row as it would be without num_rows += 1
push_row_without_count(t, row_data) ==
    IF Len(row_data) # t.num_cols THEN Out(t, Err("InvalidNumberOfElements"))
    ELSE Out([t EXCEPT !.data = t.data \o row_data], Ok)

push_row(t, row_data) ==
    IF Len(row_data) # t.num_cols THEN Out(t, Err("InvalidNumberOfElements"))
    ELSE Out([t EXCEPT !.data = t.data \o row_data,
                       !.num_rows = t.num_rows + 1], Ok)

\* The Drain borrowed from self.data removes its range when it is collected,
\* and also when it is dropped by a panic of a later statement.
remove_col(t, c) ==
    IF c >= t.num_cols THEN Out(t, None)
    ELSE LET i == IF t.order = "ColumnMajor" THEN c * t.num_rows ELSE c
             d2 == Drained(t.data, i, i + t.num_rows)
         IN  IF ~InRange(t.data, i, i + t.num_rows)
             THEN Out(t, Panic("drain range end index out of range"))
             ELSE IF i >= Len(t.col_names)
             THEN Out([t EXCEPT !.data = d2], Panic("removal index out of bounds"))
             ELSE IF i >= Len(t.descriptions)
             THEN Out([t EXCEPT !.data = d2,
                                !.col_names = Removed(t.col_names, i),
                                !.num_cols = t.num_cols - 1],
                      Panic("removal index out of bounds"))
             ELSE Out([t EXCEPT !.data = d2,
                                !.col_names = Removed(t.col_names, i),
                                !.num_cols = t.num_cols - 1,
                                !.descriptions = Removed(t.descriptions, i)],
                      Some(Slice(t.data, i, i + t.num_rows)))

\* remove_row as it would be without the RowMajor scaling of the index
remove_row_unscaled(t, r) ==
    IF r >= t.num_rows THEN Out(t, None)
    ELSE IF ~InRange(t.data, r, r + t.num_cols)
         THEN Out([t EXCEPT !.num_rows = t.num_rows - 1],
                  Panic("drain range end index out of range"))
         ELSE Out([t EXCEPT !.num_rows = t.num_rows - 1,
                            !.data = Drained(t.data, r, r + t.num_cols)],
                  Some(Slice(t.data, r, r + t.num_cols)))

remove_row(t, r) ==
    IF r >= t.num_rows THEN Out(t, None)
    ELSE LET i == IF t.order = "RowMajor" THEN r * t.num_cols ELSE r
         IN  IF ~InRange(t.data, i, i + t.num_cols)
             THEN Out([t EXCEPT !.num_rows = t.num_rows - 1],
                      Panic("drain range end index out of range"))
             ELSE Out([t EXCEPT !.num_rows = t.num_rows - 1,
                                !.data = Drained(t.data, i, i + t.num_cols)],
                      Some(Slice(t.data, i, i + t.num_cols)))

\* ------------------------------------------------------------ actions
\* A call record: the method and its arguments (unused arguments keep the
\* filler values).  Constructors record num_cols in col, num_rows in row,
\* the data vector in vals and the name vector in names.
NoCall == [op |-> "none", row |-> 0, col |-> 0, vals |-> <<>>, name |-> "",
           names |-> <<>>, ord |-> "RowMajor"]

Returned == ret.kind # "panic"
Live == alive /\ Returned
\* the caller has taken the result of the previous call and may call again
Idle == call.op = "none"
\* no table yet: a constructor may be called
CanConstruct == ~alive /\ Idle
\* a table exists: its methods may be called
CanCall == alive /\ Idle

Install(t) ==
    /\ col_names' = t.col_names
    /\ descriptions' = t.descriptions
    /\ data' = t.data
    /\ num_cols' = t.num_cols
    /\ num_rows' = t.num_rows
    /\ order' = t.order

\* a constructor call: the table exists afterwards iff it returned Ok
Construct(c, out) ==
    /\ UNCHANGED <<point, other>>
    /\ call' = c
    /\ ret' = out.ret
    /\ alive' = (out.ret.kind = "ok")
    /\ Install(out.self)

\* a method call on the live table
Method(c, out) ==
    /\ UNCHANGED <<point, other>>
    /\ call' = c
    /\ ret' = out.ret
    /\ alive' = alive
    /\ Install(out.self)

Init ==
    /\ alive = FALSE
    /\ call = NoCall
    /\ ret = Unit
    /\ col_names = <<>> /\ descriptions = <<>> /\ data = <<>>
    /\ num_cols = 0 /\ num_rows = 0 /\ order = "RowMajor"
    /\ point = DefaultPoint /\ other = DefaultPoint

New ==
    /\ CanConstruct
    /\ Construct([NoCall EXCEPT !.op = "new"], new)

NewSized ==
    /\ CanConstruct
    /\ \E nc \in Idx, nr \in Idx, names \in NameVecs :
            /\ nc * nr <= MaxCells
            /\ Construct([NoCall EXCEPT !.op = "new_sized", !.col = nc, !.row = nr,
                                        !.names = names],
                         new_sized(nc, nr, names))

FromVec ==
    /\ CanConstruct
    /\ \E d \in DataVecs, nc \in Idx, names \in NameVecs :
            /\ nc > 0 => Len(d) \div nc <= MaxDim
            /\ Construct([NoCall EXCEPT !.op = "from_vec", !.col = nc, !.vals = d,
                                        !.names = names],
                         from_vec(d, nc, names))

FromVecWithOrder ==
    /\ CanConstruct
    /\ \E d \in DataVecs, nc \in Idx, names \in NameVecs, ord \in Orders :
            /\ nc > 0 => Len(d) \div nc <= MaxDim
            /\ Construct([NoCall EXCEPT !.op = "from_vec_with_order", !.col = nc, !.vals = d,
                                        !.names = names, !.ord = ord],
                         from_vec_with_order(d, nc, names, ord))

Col ==
    /\ CanCall
    /\ \E c \in Idx : Method([NoCall EXCEPT !.op = "col", !.col = c], col(self, c))

ColName ==
    /\ CanCall
    /\ \E c \in Idx : Method([NoCall EXCEPT !.op = "col_name", !.col = c], col_name(self, c))

ColDescription ==
    /\ CanCall
    /\ \E c \in Idx : Method([NoCall EXCEPT !.op = "col_description", !.col = c],
                              col_description(self, c))

Row ==
    /\ CanCall
    /\ \E r \in Idx : Method([NoCall EXCEPT !.op = "row", !.row = r], row(self, r))

Transpose ==
    /\ CanCall
    /\ Method([NoCall EXCEPT !.op = "transpose"], transpose(self))

ColByName ==
    /\ CanCall
    /\ \E n \in Names : Method([NoCall EXCEPT !.op = "col_by_name", !.name = n],
                                col_by_name(self, n))

Get ==
    /\ CanCall
    /\ \E r \in Idx, c \in Idx :
            Method([NoCall EXCEPT !.op = "get", !.row = r, !.col = c], get(self, r, c))

Set ==
    /\ CanCall
    /\ \E r \in Idx, c \in Idx, v \in Elems :
            Method([NoCall EXCEPT !.op = "set", !.row = r, !.col = c, !.vals = <<v>>],
                   set(self, r, c, v))

SetCol ==
    /\ CanCall
    /\ \E c \in Idx, v \in ArgVecs(num_rows) :
            Method([NoCall EXCEPT !.op = "set_col", !.col = c, !.vals = v], set_col(self, c, v))

SetRow ==
    /\ CanCall
    /\ \E r \in Idx, v \in ArgVecs(num_cols) :
            Method([NoCall EXCEPT !.op = "set_row", !.row = r, !.vals = v], set_row(self, r, v))

SetColByName ==
    /\ CanCall
    /\ \E n \in Names, v \in ArgVecs(num_rows) :
            Method([NoCall EXCEPT !.op = "set_col_by_name", !.name = n, !.vals = v],
                   set_col_by_name(self, n, v))

SetColName ==
    /\ CanCall
    /\ \E c \in Idx, n \in Names :
            Method([NoCall EXCEPT !.op = "set_col_name", !.col = c, !.name = n],
                   set_col_name(self, c, n))

SetColDescription ==
    /\ CanCall
    /\ \E c \in Idx, d \in Descs :
            Method([NoCall EXCEPT !.op = "set_col_description", !.col = c, !.name = d],
                   set_col_description(self, c, d))

IterRow ==
    /\ CanCall
    /\ \E r \in Idx : Method([NoCall EXCEPT !.op = "iter_row", !.row = r], iter_row(self, r))

IterCol ==
    /\ CanCall
    /\ \E c \in Idx : Method([NoCall EXCEPT !.op = "iter_col", !.col = c], iter_col(self, c))

\* a push that succeeds is taken only while the table stays within the bounds
PushCol ==
    /\ CanCall
    /\ \E n \in Names, v \in ArgVecs(num_rows) :
            /\ Len(v) = num_rows => /\ num_cols < MaxDim
                                    /\ Len(col_names) < MaxDim
                                    /\ Len(descriptions) < MaxDim
                                    /\ Len(data) + Len(v) <= MaxCells
            /\ Method([NoCall EXCEPT !.op = "push_col", !.name = n, !.vals = v],
                      push_col(self, n, v))

PushRow ==
    /\ CanCall
    /\ \E v \in ArgVecs(num_cols) :
            /\ Len(v) = num_cols => (num_rows < MaxDim /\ Len(data) + Len(v) <= MaxCells)
            /\ Method([NoCall EXCEPT !.op = "push_row", !.vals = v], push_row(self, v))

RemoveCol ==
    /\ CanCall
    /\ \E c \in Idx : Method([NoCall EXCEPT !.op = "remove_col", !.col = c], remove_col(self, c))

RemoveRow ==
    /\ CanCall
    /\ \E r \in Idx : Method([NoCall EXCEPT !.op = "remove_row", !.row = r], remove_row(self, r))

\* The caller takes the returned value; a panicked call never returns.
Resume ==
    /\ ~Idle /\ Returned
    /\ call' = NoCall
    /\ ret' = Unit
    /\ UNCHANGED <<col_names, descriptions, data, num_cols, num_rows, order, alive>>
    /\ UNCHANGED <<point, other>>

Next ==
    \/ Resume
    \/ New \/ NewSized \/ FromVec \/ FromVecWithOrder
    \/ Col \/ ColName \/ ColDescription \/ Row \/ Transpose \/ ColByName
    \/ Get \/ Set \/ SetCol \/ SetRow \/ SetColByName \/ SetColName \/ SetColDescription
    \/ IterRow \/ IterCol
    \/ PushCol \/ PushRow \/ RemoveCol \/ RemoveRow

Spec == Init /\ [][Next]_vars

\* ------------------------------------------- Point::cross on its own
\* No table is involved: the two points are drawn from Points and cross is
\* applied to them once.
InitPoint ==
    /\ alive = FALSE
    /\ call = NoCall
    /\ ret = Unit
    /\ col_names = <<>> /\ descriptions = <<>> /\ data = <<>>
    /\ num_cols = 0 /\ num_rows = 0 /\ order = "RowMajor"
    /\ point \in Points /\ other \in Points

Cross ==
    /\ Idle
    /\ call' = [NoCall EXCEPT !.op = "cross"]
    /\ ret' = SomePoint(cross(point, other))
    /\ UNCHANGED <<col_names, descriptions, data, num_cols, num_rows, order, alive>>
    /\ UNCHANGED <<point, other>>

NextPoint == Cross

SpecPoint == InitPoint /\ [][NextPoint]_vars

\* --------------------------------------------------------- type check
TypeOK ==
    /\ alive \in BOOLEAN
    /\ num_cols \in Nat /\ num_rows \in Nat
    /\ order \in Orders
    /\ Len(data) <= MaxCells + MaxDim

\* ======================================================== properties
\* the physical offset of logical cell (r, c) under the active layout
offset(r, c) == IF order = "RowMajor" THEN r * num_cols + c ELSE c * num_rows + r

\* C1: in every table state reached by calls that returned (successfully or
\* with a failure value), data.len() == num_cols * num_rows.
Thm_C1 == Returned => Len(data) = num_cols * num_rows

\* a column was removed from a column-major table that still holds cells
Wit_C1 ==
    /\ call.op = "remove_col" /\ ret.kind = "some"
    /\ order = "ColumnMajor" /\ Len(data) > 0

\* C2: get(row, col) reads data at offset row*num_cols + col (RowMajor) or
\* col*num_rows + row (ColumnMajor) when both indices are in range, and
\* returns absent otherwise; the recorded result of a get call is that value.
Thm_C2 ==
    Live =>
        /\ \A r \in Idx, c \in Idx :
              get(self, r, c).ret =
                  IF r < num_rows /\ c < num_cols
                  THEN Some(<<data[offset(r, c) + 1]>>)
                  ELSE None
        /\ call.op = "get" => ret = get(self, call.row, call.col).ret

\* get read cell (1, 0) of a 2 x 2 column-major table, where the two layouts differ
Wit_C2 ==
    /\ call.op = "get" /\ ret.kind = "some"
    /\ order = "ColumnMajor" /\ num_cols = 2 /\ num_rows = 2
    /\ call.row = 1 /\ call.col = 0
    /\ data[2] # data[3]

\* C3: for valid (r, c), set(r, c, v) returns what get(r, c) returned just
\* before, and get(r, c) just afterwards returns v.
Thm_C3 ==
    [][(call'.op = "set" /\ call'.row < num_rows /\ call'.col < num_cols) =>
           /\ ret'.kind = "some"
           /\ ret' = get(self, call'.row, call'.col).ret
           /\ get(self', call'.row, call'.col).ret = Some(call'.vals)]_vars

\* set overwrote a cell of a column-major table with a different value
Wit_C3 ==
    /\ call.op = "set" /\ ret.kind = "some"
    /\ order = "ColumnMajor" /\ num_cols = 2 /\ num_rows = 2
    /\ call.row = 1 /\ call.col = 0
    /\ ret.vals # call.vals

\* logical column j and logical row i, cell by cell through get
logical_col(j) == [r \in 1..num_rows |-> get(self, r - 1, j).ret.vals[1]]
logical_row(i) == [c \in 1..num_cols |-> get(self, i, c - 1).ret.vals[1]]

\* C4: for every j < num_cols, col(j) and iter_col(j) yield the num_rows
\* elements of logical column j, the r-th being get(r, j), in either layout.
Cex_C4 ==
    Live => \A j \in Idx : j < num_cols =>
                /\ col(self, j).ret = Some(logical_col(j))
                /\ iter_col(self, j).ret = Some(logical_col(j))

\* C5: for every i < num_rows, row(i) and iter_row(i) yield the num_cols
\* elements of logical row i, the c-th being get(i, c), in either layout.
Cex_C5 ==
    Live => \A i \in Idx : i < num_rows =>
                /\ row(self, i).ret = Some(logical_row(i))
                /\ iter_row(self, i).ret = Some(logical_row(i))

\* C6: a set_row / set_col / set_col_by_name that succeeds returns the previous
\* contents of the row or column, and afterwards the row or column equals the
\* slice that was passed.
Cex_C6 ==
    [][/\ (call'.op = "set_row" /\ ret'.kind = "some") =>
              /\ ret' = row(self, call'.row).ret
              /\ row(self', call'.row).ret = Some(call'.vals)
       /\ (call'.op = "set_col" /\ ret'.kind = "some") =>
              /\ ret' = col(self, call'.col).ret
              /\ col(self', call'.col).ret = Some(call'.vals)
       /\ (call'.op = "set_col_by_name" /\ ret'.kind = "some") =>
              /\ ret' = col_by_name(self, call'.name).ret
              /\ col_by_name(self', call'.name).ret = Some(call'.vals)]_vars

TableConstructors == {"new", "new_sized", "from_vec", "from_vec_with_order"}

\* C7 as stated: after every constructor that returns a table and after
\* push_col, push_row, remove_col, remove_row, set_col_name and transpose,
\* col_names.len() == num_cols.
Cex_C7 ==
    (Live /\ call.op \in TableConstructors \cup
                 {"push_col", "push_row", "remove_col", "remove_row",
                  "set_col_name", "transpose"})
        => Len(col_names) = num_cols

\* C7 as amended: new, new_sized and from_vec return tables with
\* col_names.len() == num_cols, from_vec_with_order does so exactly when it is
\* given num_cols names, push_col, push_row, remove_col, remove_row and
\* set_col_name keep the equality, and transpose keeps it exactly when
\* num_cols == num_rows.
Thm_C7 ==
    [][/\ (alive' /\ call'.op \in {"new", "new_sized", "from_vec"}) =>
              Len(col_names') = num_cols'
       /\ (alive' /\ call'.op = "from_vec_with_order") =>
              (Len(col_names') = num_cols' <=> Len(call'.names) = call'.col)
       /\ (call'.op \in {"push_col", "push_row", "remove_col", "remove_row",
                         "set_col_name"} /\ Len(col_names) = num_cols) =>
              Len(col_names') = num_cols'
       /\ (call'.op = "transpose" /\ Len(col_names) = num_cols) =>
              (Len(col_names') = num_cols' <=> num_cols = num_rows)]_vars

\* a column was pushed onto a table whose names matched its columns
Wit_C7 ==
    /\ call.op = "push_col" /\ ret.kind = "ok"
    /\ num_cols = 2 /\ Len(col_names) = 2

\* C8: new_sized, from_vec and from_vec_with_order initialise descriptions to
\* num_cols empty strings, and descriptions.len() == num_cols holds after
\* every later operation.
Cex_C8 ==
    Live =>
        /\ call.op \in {"new_sized", "from_vec", "from_vec_with_order"} =>
               descriptions = [i \in 1..num_cols |-> ""]
        /\ Len(descriptions) = num_cols

CheckedOps ==
    {"get", "set", "row", "col", "iter_row", "iter_col", "set_row", "set_col",
     "remove_row", "remove_col", "col_name", "col_description", "set_col_name",
     "set_col_description"}

\* C9: no checked index-taking operation aborts: each returns absent or a result.
Cex_C9 == call.op \in CheckedOps => ret.kind # "panic"

\* C10: new_sized, from_vec and from_vec_with_order return a table or a
\* TableError for every input, num_cols == 0 included; none panics.
Cex_C10 ==
    call.op \in {"new_sized", "from_vec", "from_vec_with_order"} =>
        ret.kind \in {"ok", "err"}

\* C20: Point::cross(a, b) is the vector cross product
\* (a.y*b.z - a.z*b.y, a.z*b.x - a.x*b.z, a.x*b.y - a.y*b.x); in particular
\* cross(a, a) is the zero vector and cross(a, b) = -cross(b, a).
Cex_C20 ==
    call.op = "cross" =>
        /\ ret.vals = <<point.y * other.z - point.z * other.y,
                        point.z * other.x - point.x * other.z,
                        point.x * other.y - point.y * other.x>>
        /\ cross(point, point) = DefaultPoint
        /\ LET ab == cross(point, other)
               ba == cross(other, point)
           IN  ab.x = 0 - ba.x /\ ab.y = 0 - ba.y /\ ab.z = 0 - ba.z

\* n is a multiple of k (0 is the only multiple of 0)
IsMultiple(n, k) == \E q \in 0..n : n = q * k

\* C11: from_vec(data, num_cols, col_names) returns InvalidNumberOfColumns when
\* data.len() is not a multiple of num_cols, else InvalidNumberOfColumnNames
\* when col_names.len() != num_cols, and otherwise a RowMajor table with the
\* given num_cols, num_rows == data.len() / num_cols and the buffer equal to data.
Cex_C11 ==
    call.op = "from_vec" =>
        IF ~IsMultiple(Len(call.vals), call.col)
        THEN ret = Err("InvalidNumberOfColumns")
        ELSE IF Len(call.names) # call.col
        THEN ret = Err("InvalidNumberOfColumnNames")
        ELSE /\ ret = Ok
             /\ alive
             /\ order = "RowMajor"
             /\ num_cols = call.col
             /\ num_rows = Len(data) \div num_cols
             /\ data = call.vals

\* C11 away from num_cols == 0: the same three outcomes, which the code gives
Chk_C11_positive == call.col > 0 => Cex_C11

\* C12: transpose() toggles order and swaps num_cols with num_rows, leaves
\* data, col_names and descriptions unchanged, and a second transpose()
\* restores the same order, counts and buffer.
Thm_C12 ==
    [][call'.op = "transpose" =>
           /\ order' # order /\ order' \in Orders
           /\ num_cols' = num_rows /\ num_rows' = num_cols
           /\ data' = data /\ col_names' = col_names /\ descriptions' = descriptions
           /\ transpose(self').self = self]_vars

\* a column-major 1 x 2 table with names was obtained by transpose
Wit_C12 ==
    /\ call.op = "transpose"
    /\ order = "ColumnMajor" /\ num_cols = 1 /\ num_rows = 2
    /\ Len(data) = 2 /\ Len(col_names) = 2

\* C13: a successful push_col(name, col_data), in either layout, makes the
\* buffer the old buffer followed by col_data, appends name to col_names and
\* one empty string to descriptions, increments num_cols and leaves num_rows
\* and order unchanged; a successful push_row(row_data) makes the buffer the
\* old buffer followed by row_data, increments num_rows and leaves num_cols,
\* order, col_names and descriptions unchanged.
Thm_C13 ==
    [][/\ (call'.op = "push_col" /\ ret'.kind = "ok") =>
              /\ data' = data \o call'.vals
              /\ col_names' = Append(col_names, call'.name)
              /\ descriptions' = Append(descriptions, "")
              /\ num_cols' = num_cols + 1
              /\ num_rows' = num_rows /\ order' = order
       /\ (call'.op = "push_row" /\ ret'.kind = "ok") =>
              /\ data' = data \o call'.vals
              /\ num_rows' = num_rows + 1
              /\ num_cols' = num_cols /\ order' = order
              /\ col_names' = col_names /\ descriptions' = descriptions
       /\ (call'.op = "push_col" /\ Len(call'.vals) = num_rows) => ret' = Ok
       /\ (call'.op = "push_row" /\ Len(call'.vals) = num_cols) => ret' = Ok]_vars

\* a second column of two cells was pushed onto a row-major table
Wit_C13 ==
    /\ call.op = "push_col" /\ ret.kind = "ok"
    /\ order = "RowMajor" /\ num_cols = 2 /\ num_rows = 2
    /\ Len(call.vals) = 2 /\ Len(data) = 4

FallibleOps == {"push_col", "push_row", "remove_col", "remove_row", "set", "set_row", "set_col"}

\* C14: an operation that reports failure leaves data, col_names,
\* descriptions, num_cols, num_rows and order unchanged; push_col with
\* col_data.len() != num_rows and push_row with row_data.len() != num_cols
\* return InvalidNumberOfElements, and remove_col, remove_row, set, set_row and
\* set_col with an out-of-range index or a slice of the wrong length return absent.
Thm_C14 ==
    [][/\ (call'.op \in FallibleOps /\ ret'.kind \in {"err", "none"}) => self' = self
       /\ (call'.op = "push_col" /\ Len(call'.vals) # num_rows) =>
              ret' = Err("InvalidNumberOfElements")
       /\ (call'.op = "push_row" /\ Len(call'.vals) # num_cols) =>
              ret' = Err("InvalidNumberOfElements")
       /\ (call'.op = "remove_col" /\ call'.col >= num_cols) => ret' = None
       /\ (call'.op = "remove_row" /\ call'.row >= num_rows) => ret' = None
       /\ (call'.op = "set" /\ (call'.row >= num_rows \/ call'.col >= num_cols)) =>
              ret' = None
       /\ (call'.op = "set_row" /\ (call'.row >= num_rows \/ Len(call'.vals) # num_cols)) =>
              ret' = None
       /\ (call'.op = "set_col" /\ (call'.col >= num_cols \/ Len(call'.vals) # num_rows)) =>
              ret' = None]_vars

\* push_col was refused on a table with cells, names and descriptions
Wit_C14 ==
    /\ call.op = "push_col" /\ ret = Err("InvalidNumberOfElements")
    /\ num_rows = 2 /\ Len(call.vals) = 1
    /\ Len(data) > 0 /\ Len(col_names) > 0

\* C15: on a RowMajor table, push_row(row_data) with row_data of length
\* num_cols followed by remove_row(old num_rows) returns row_data and restores
\* num_rows and the whole buffer to their values before the push.
Thm_C15 ==
    [][(call'.op = "push_row" /\ order = "RowMajor" /\ Len(call'.vals) = num_cols) =>
           /\ ret' = Ok
           /\ LET undo == remove_row(self', num_rows)
              IN  /\ undo.ret = Some(call'.vals)
                  /\ undo.self.num_rows = num_rows
                  /\ undo.self.data = data
                  /\ undo.self = self]_vars

\* a row of two cells was pushed onto a RowMajor table that had one row
Wit_C15 ==
    /\ call.op = "push_row" /\ ret.kind = "ok" /\ order = "RowMajor"
    /\ num_cols = 2 /\ num_rows = 2 /\ Len(data) = 4
    /\ call.vals = <<1, 0>>

\* C16: on a table in either layout whose col_names and descriptions have
\* length num_cols, remove_col(i) with i < num_cols deletes exactly entry i of
\* col_names and entry i of descriptions and decrements num_cols by one.
Cex_C16 ==
    [][(/\ call'.op = "remove_col" /\ call'.col < num_cols
        /\ Len(col_names) = num_cols /\ Len(descriptions) = num_cols) =>
           /\ ret'.kind = "some"
           /\ col_names' = Removed(col_names, call'.col)
           /\ descriptions' = Removed(descriptions, call'.col)
           /\ num_cols' = num_cols - 1]_vars

Matches(name) == {i \in 0..(Len(col_names) - 1) : col_names[i + 1] = name}
FirstMatch(name) == CHOOSE i \in Matches(name) : \A j \in Matches(name) : i <= j

\* C17: col_by_name(name) returns absent when no entry of col_names equals
\* name, and otherwise exactly what col(i) returns for the smallest i with
\* col_names[i] == name.
Thm_C17 ==
    (alive /\ call.op = "col_by_name") =>
        IF Matches(call.name) = {}
        THEN ret = None
        ELSE ret = col(self, FirstMatch(call.name)).ret

\* the name looked up occurs twice and the two columns differ
Wit_C17 ==
    /\ call.op = "col_by_name" /\ call.name = "a" /\ ret.kind = "some"
    /\ col_names = <<"a", "a">> /\ num_cols = 2 /\ num_rows = 1
    /\ col(self, 0).ret # col(self, 1).ret

\* C18: transpose() is a logical transposition: for r < num_rows and
\* c < num_cols before the call, get(c, r) afterwards returns the element
\* get(r, c) returned before, and get afterwards is defined exactly on the
\* swapped index ranges.
Thm_C18 ==
    [][call'.op = "transpose" =>
           \A r \in Idx, c \in Idx :
               /\ get(self', c, r).ret = get(self, r, c).ret
               /\ (r < num_rows /\ c < num_cols) =>
                      get(self', c, r).ret = Some(<<data[offset(r, c) + 1]>>)
               /\ get(self', c, r).ret = None <=> (r >= num_rows \/ c >= num_cols)]_vars

\* a 2 x 2 table whose off-diagonal cells differ has been transposed
Wit_C18 ==
    /\ call.op = "transpose" /\ ret.kind = "unit"
    /\ num_cols = 2 /\ num_rows = 2 /\ Len(data) = 4
    /\ data[2] # data[3]

\* the logical row r and the logical column c of the current table
get_row(r) == [c \in 1..num_cols |-> data[offset(r, c - 1) + 1]]
get_col(c) == [r \in 1..num_rows |-> data[offset(r - 1, c) + 1]]

\* C19: removal is by logical index in both layouts: remove_row(i) with
\* i < num_rows returns the old get(i, c) values and afterwards get(r, c) is the
\* old get(r, c) for r < i and the old get(r+1, c) for r >= i; symmetrically
\* remove_col(j) returns the old get(r, j) values and shifts the later columns
\* down by one without changing any other cell.
Cex_C19 ==
    [][/\ (call'.op = "remove_row" /\ call'.row < num_rows) =>
              /\ ret' = Some(get_row(call'.row))
              /\ \A r \in 0..(num_rows - 2), c \in 0..(num_cols - 1) :
                     get(self', r, c).ret =
                         get(self, IF r < call'.row THEN r ELSE r + 1, c).ret
       /\ (call'.op = "remove_col" /\ call'.col < num_cols) =>
              /\ ret' = Some(get_col(call'.col))
              /\ \A r \in 0..(num_rows - 1), c \in 0..(num_cols - 2) :
                     get(self', r, c).ret =
                         get(self, r, IF c < call'.col THEN c ELSE c + 1).ret]_vars

====
